---- MODULE Spec2Model ----
(***************************************************************************)
(* ManufacturingChatbot (ai_chatbot.py): keyword classification of a       *)
(* query, template rendering from the stored context and random samples,  *)
(* and the conversation history.                                          *)
(*                                                                         *)
(* Text is a sequence of one-character strings.  Floating point numbers    *)
(* are integers counted in hundredths (99.9 is 9990).                      *)
(***************************************************************************)
EXTENDS Integers, Sequences, FiniteSets, TLC

\* ---------------------------------------------------------------- bounds
MaxCalls == 2        \* get_response calls between two clear_history calls
MaxRng == 2          \* the random generator has MaxRng + 1 hidden states
MaxTokens == 2       \* a generated query is at most MaxTokens tokens long
MaxTicks == 2        \* the wall clock advances by at most MaxTicks seconds
MaxThreads == 2      \* threads calling get_response on one instance
MaxWidgets == 2      \* widgets created in the dashboard builder
MaxSaved == 1        \* saved dashboards kept at a time
MaxPreview == 4      \* widgets of a previewed dashboard

\* ------------------------------------------------------------------ text
Whitespace == {" ", "\t", "\n"}

UpperCase == <<"A","B","C","D","E","F","G","H","I","J","K","L","M",
               "N","O","P","Q","R","S","T","U","V","W","X","Y","Z">>

LowerCase == <<"a","b","c","d","e","f","g","h","i","j","k","l","m",
               "n","o","p","q","r","s","t","u","v","w","x","y","z">>

\* str.lower() on one character
lower_char(c) ==
    LET idx == {i \in 1..26 : UpperCase[i] = c}
    IN  IF idx = {} THEN c ELSE LowerCase[CHOOSE i \in idx : TRUE]

\* str.lower()
lower(s) == [i \in 1..Len(s) |-> lower_char(s[i])]

RECURSIVE lstrip(_)
lstrip(s) == IF s # <<>> /\ Head(s) \in Whitespace THEN lstrip(Tail(s)) ELSE s

RECURSIVE rstrip(_)
rstrip(s) ==
    IF s # <<>> /\ s[Len(s)] \in Whitespace
    THEN rstrip(SubSeq(s, 1, Len(s) - 1)) ELSE s

\* str.strip()
strip(s) == rstrip(lstrip(s))

\* keyword in query_lower
Contains(keyword, s) ==
    \E i \in 0..(Len(s) - Len(keyword)) : SubSeq(s, i + 1, i + Len(keyword)) = keyword

\* user_query[:n]
Prefix(s, n) == SubSeq(s, 1, IF Len(s) < n THEN Len(s) ELSE n)

\* -------------------------------------------------------- knowledge base
\* The topics in declaration order; placeholders maps every named field of
\* the response template to its format specification.
knowledge_base == <<
    [topic |-> "oee",
     keywords |-> <<<<"o","e","e">>,
                    <<"o","v","e","r","a","l","l"," ","e","q","u","i","p","m","e","n","t"," ","e","f","f","e","c","t","i","v","e","n","e","s","s">>,
                    <<"e","q","u","i","p","m","e","n","t"," ","e","f","f","e","c","t","i","v","e","n","e","s","s">>>>,
     placeholders |-> [oee |-> ".1f", availability |-> ".1f", performance |-> ".1f", quality |-> ".1f", recommendation |-> ""]],
    [topic |-> "maintenance",
     keywords |-> <<<<"m","a","i","n","t","e","n","a","n","c","e">>,
                    <<"r","e","p","a","i","r">>,
                    <<"f","i","x">>,
                    <<"b","r","o","k","e","n">>,
                    <<"f","a","i","l","u","r","e">>,
                    <<"p","r","e","d","i","c","t">>>>,
     placeholders |-> [equipment_status |-> "", maintenance_schedule |-> "", savings |-> ","]],
    [topic |-> "energy",
     keywords |-> <<<<"e","n","e","r","g","y">>,
                    <<"p","o","w","e","r">>,
                    <<"c","o","n","s","u","m","p","t","i","o","n">>,
                    <<"e","l","e","c","t","r","i","c","i","t","y">>,
                    <<"k","w","h">>,
                    <<"c","a","r","b","o","n">>>>,
     placeholders |-> [today_kwh |-> ",.0f", peak_kw |-> ",.0f", cost |-> ",.2f", carbon |-> ".0f", recommendations |-> ""]],
    [topic |-> "quality",
     keywords |-> <<<<"q","u","a","l","i","t","y">>,
                    <<"d","e","f","e","c","t">>,
                    <<"d","e","f","e","c","t","s">>,
                    <<"r","e","j","e","c","t">>,
                    <<"s","c","r","a","p">>,
                    <<"y","i","e","l","d">>,
                    <<"f","p","y">>>>,
     placeholders |-> [fpy |-> ".1f", defect_rate |-> ".2f", rework_rate |-> ".2f", defect_types |-> "", insight |-> ""]],
    [topic |-> "production",
     keywords |-> <<<<"p","r","o","d","u","c","t","i","o","n">>,
                    <<"o","u","t","p","u","t">>,
                    <<"u","n","i","t","s">>,
                    <<"t","h","r","o","u","g","h","p","u","t">>,
                    <<"c","a","p","a","c","i","t","y">>,
                    <<"r","a","t","e">>>>,
     placeholders |-> [units |-> ",", target_pct |-> ".1f", cycle_time |-> ".1f", throughput |-> ".0f", line_production |-> ""]],
    [topic |-> "alert",
     keywords |-> <<<<"a","l","e","r","t">>,
                    <<"a","l","a","r","m">>,
                    <<"w","a","r","n","i","n","g">>,
                    <<"c","r","i","t","i","c","a","l">>,
                    <<"i","s","s","u","e">>,
                    <<"p","r","o","b","l","e","m">>>>,
     placeholders |-> [alerts |-> "", actions |-> ""]],
    [topic |-> "anomaly",
     keywords |-> <<<<"a","n","o","m","a","l","y">>,
                    <<"a","n","o","m","a","l","i","e","s">>,
                    <<"u","n","u","s","u","a","l">>,
                    <<"a","b","n","o","r","m","a","l">>,
                    <<"o","u","t","l","i","e","r">>>>,
     placeholders |-> [count |-> "", rate |-> ".2f", confidence |-> ".1f", anomaly_list |-> "", root_cause |-> ""]],
    [topic |-> "help",
     keywords |-> <<<<"h","e","l","p">>,
                    <<"w","h","a","t"," ","c","a","n"," ","y","o","u"," ","d","o">>,
                    <<"c","o","m","m","a","n","d","s">>,
                    <<"h","o","w"," ","t","o">>,
                    <<"g","u","i","d","e">>>>,
     placeholders |-> <<>>],
    [topic |-> "summary",
     keywords |-> <<<<"s","u","m","m","a","r","y">>,
                    <<"o","v","e","r","v","i","e","w">>,
                    <<"s","t","a","t","u","s">>,
                    <<"d","a","s","h","b","o","a","r","d">>,
                    <<"r","e","p","o","r","t">>,
                    <<"t","o","d","a","y">>>>,
     placeholders |-> [units |-> ",", target_pct |-> ".1f", oee |-> ".1f", energy |-> ",.0f", cost |-> ",.2f", fpy |-> ".1f", defect_rate |-> ".2f", health_status |-> "", next_maintenance |-> "", alert_count |-> "", priority |-> ""]],
    [topic |-> "optimize",
     keywords |-> <<<<"o","p","t","i","m","i","z","e">>,
                    <<"i","m","p","r","o","v","e">>,
                    <<"b","e","t","t","e","r">>,
                    <<"i","n","c","r","e","a","s","e">>,
                    <<"r","e","d","u","c","e">>,
                    <<"e","f","f","i","c","i","e","n","c","y">>,
                    <<"t","i","p","s">>>>,
     placeholders |-> [high_impact |-> "", medium_impact |-> "", quick_wins |-> "", oee_improvement |-> ".1f", energy_savings |-> "", quality_improvement |-> ".1f"]]
>>

None == "None"

Topics == {knowledge_base[i].topic : i \in 1..Len(knowledge_base)}

TopicInfo(topic) ==
    knowledge_base[CHOOSE i \in 1..Len(knowledge_base) : knowledge_base[i].topic = topic]

\* the placeholders of the three fallback templates
default_responses == <<[query |-> ""], [query |-> ""], <<>>>>

QueryPrefixLen == 50

\* query_lower without the lower()
query_stripped(user_query) == strip(user_query)

query_lower(user_query) == strip(lower(user_query))

\* for keyword in info['keywords']: if keyword in query_lower: ... break
RECURSIVE ScanKeywords(_, _, _)
ScanKeywords(keywords, j, q) ==
    IF j > Len(keywords) THEN FALSE
    ELSE IF Contains(keywords[j], q) THEN TRUE
    ELSE ScanKeywords(keywords, j + 1, q)

\* for topic, info in self.knowledge_base.items(): ... if matched_topic: break
RECURSIVE ScanTopics(_, _)
ScanTopics(i, q) ==
    IF i > Len(knowledge_base) THEN None
    ELSE IF ScanKeywords(knowledge_base[i].keywords, 1, q) THEN knowledge_base[i].topic
    ELSE ScanTopics(i + 1, q)

\* the same scan without the outer break: the last matching topic stays
RECURSIVE ScanTopicsNoBreak(_, _, _)
ScanTopicsNoBreak(i, q, matched) ==
    IF i > Len(knowledge_base) THEN matched
    ELSE ScanTopicsNoBreak(i + 1, q,
            IF ScanKeywords(knowledge_base[i].keywords, 1, q)
            THEN knowledge_base[i].topic ELSE matched)

MatchTopicNoBreak(q) == ScanTopicsNoBreak(1, q, None)

MatchTopic(q) == ScanTopics(1, q)

\* ------------------------------------------------------------- values
\* A Python value that can reach a format field: a float (in hundredths),
\* an int, or a str (a text).
PyFloat(h) == [type |-> "float", num |-> h, text |-> <<>>]

PyInt(n) == [type |-> "int", num |-> n, text |-> <<>>]

PyStr(t) == [type |-> "str", num |-> 0, text |-> t]

\* True and False: bool is a subclass of int, 1 and 0 to a numeric format
PyBool(b) == [type |-> "bool", num |-> IF b THEN 1 ELSE 0, text |-> <<>>]

PyNone == [type |-> "none", num |-> 0, text |-> <<>>]

\* '\n'.join(lines)
RECURSIVE Join(_)
Join(lines) ==
    IF Len(lines) <= 1 THEN lines
    ELSE <<Head(lines), "\n">> \o Join(Tail(lines))

DigitChars == <<"0","1","2","3","4","5","6","7","8","9">>

\* decimal digits of a natural number
RECURSIVE Digits(_)
Digits(n) ==
    IF n < 10 THEN <<DigitChars[n + 1]>>
    ELSE Digits(n \div 10) \o <<DigitChars[(n % 10) + 1]>>

\* decimal digits with the ',' thousands separator
RECURSIVE GroupedDigits(_)
GroupedDigits(n) ==
    IF n < 1000 THEN Digits(n)
    ELSE GroupedDigits(n \div 1000) \o <<",">> \o
         <<DigitChars[((n % 1000) \div 100) + 1],
           DigitChars[((n % 100) \div 10) + 1],
           DigitChars[(n % 10) + 1]>>

Pow10(d) == IF d = 0 THEN 1 ELSE IF d = 1 THEN 10 ELSE 100

\* h hundredths rounded to d decimals, ties to even.  The binary value of a
\* float is exactly its decimal value on a tie only for .25, .50 and .75;
\* the floats of the model keep to those.
RoundHalfEven(h, d) ==
    LET scale == Pow10(2 - d)
        q     == h \div scale
        rem   == h % scale
    IN  IF 2 * rem > scale \/ (2 * rem = scale /\ q % 2 = 1) THEN q + 1 ELSE q

\* format(x, '.df') and format(x, ',.df') of a number of h hundredths
Fixed(h, d, grouped) ==
    LET a     == IF h < 0 THEN 0 - h ELSE h
        r     == RoundHalfEven(a, d)
        whole == r \div Pow10(d)
        frac  == r % Pow10(d)
        whl   == IF grouped THEN GroupedDigits(whole) ELSE Digits(whole)
        dec   == IF d = 0 THEN <<>>
                 ELSE IF d = 1 THEN <<".", DigitChars[frac + 1]>>
                 ELSE <<".", DigitChars[(frac \div 10) + 1], DigitChars[(frac % 10) + 1]>>
    IN  (IF h < 0 THEN <<"-">> ELSE <<>>) \o whl \o dec

\* repr of a float of h hundredths: the shortest decimal, at least one digit
FloatRepr(h, grouped) ==
    IF h % 100 = 0 THEN Fixed(h, 1, grouped)
    ELSE IF h % 10 = 0 THEN Fixed(h, 1, grouped)
    ELSE Fixed(h, 2, grouped)

Hundredths(value) ==
    IF value.type \in {"int", "bool"} THEN 100 * value.num ELSE value.num

Formatted(text) == [ok |-> TRUE, text |-> text]

FormatError == [ok |-> FALSE, text |-> <<>>]

\* format(value, spec) for the format specifications the templates use
FormatValue(spec, value) ==
    IF spec = "" THEN
        IF value.type = "str" THEN Formatted(value.text)
        ELSE IF value.type = "int" THEN Formatted(Digits(value.num))
        ELSE IF value.type = "bool"
        THEN Formatted(IF value.num = 1 THEN <<"T", "r", "u", "e">>
                       ELSE <<"F", "a", "l", "s", "e">>)
        ELSE IF value.type = "none" THEN Formatted(<<"N", "o", "n", "e">>)
        ELSE Formatted(FloatRepr(value.num, FALSE))
    ELSE IF value.type \in {"str", "none"} THEN FormatError
    ELSE IF spec = "," THEN
        IF value.type \in {"int", "bool"} THEN Formatted(GroupedDigits(value.num))
        ELSE Formatted(FloatRepr(value.num, TRUE))
    ELSE IF spec = ".0f"  THEN Formatted(Fixed(Hundredths(value), 0, FALSE))
    ELSE IF spec = ".1f"  THEN Formatted(Fixed(Hundredths(value), 1, FALSE))
    ELSE IF spec = ".2f"  THEN Formatted(Fixed(Hundredths(value), 2, FALSE))
    ELSE IF spec = ",.0f" THEN Formatted(Fixed(Hundredths(value), 0, TRUE))
    ELSE IF spec = ",.2f" THEN Formatted(Fixed(Hundredths(value), 2, TRUE))
    ELSE FormatError

NoResponse == [template |-> None, fields |-> <<>>]

Returned(response) == [status |-> "returned", response |-> response]

Raised == [status |-> "raised", response |-> NoResponse]

\* template.format(**kwargs): the text is the template (named by id) with
\* every placeholder replaced by its formatted argument; a placeholder
\* without argument (KeyError) or a value its format specification rejects
\* (ValueError, TypeError) raises.
FormatTemplate(id, placeholders, kwargs) ==
    IF \E p \in DOMAIN placeholders : p \notin DOMAIN kwargs THEN Raised
    ELSE IF \E p \in DOMAIN placeholders : ~FormatValue(placeholders[p], kwargs[p]).ok
    THEN Raised
    ELSE Returned([template |-> id,
                   fields |-> [p \in DOMAIN placeholders |->
                                  FormatValue(placeholders[p], kwargs[p]).text]])

\* ------------------------------------------------------------- random
\* The random module is a deterministic generator with a hidden state.  A
\* call starts in any of the states 0..MaxRng, and its k-th draw (k = 0, 1,
\* ...) lands on sample point (r + k) % (MaxRng + 1) of the MaxRng + 1 evenly
\* spaced points of the range, both ends included.
Rng == 0..MaxRng

SamplePoint(r, k) == (r + k) % (MaxRng + 1)

\* random.uniform(lo, hi), lo and hi in hundredths
\* a uniform that draws from above the range
uniform_beyond(lo, hi, r, k) ==
    PyFloat(hi + ((hi - lo) * SamplePoint(r, k)) \div MaxRng)

uniform(lo, hi, r, k) == PyFloat(lo + ((hi - lo) * SamplePoint(r, k)) \div MaxRng)

\* random.randint(a, b)
randint(a, b, r, k) == PyInt(a + ((b - a) * SamplePoint(r, k)) \div MaxRng)

\* random.choice(pool)
choice(pool, r, k) == pool[((r + k) % Len(pool)) + 1]

\* ------------------------------------------------- the candidate pools
oee_recommendations ==
    <<"Focus on reducing changeover time to improve availability.",
      "Consider implementing TPM to boost performance.",
      "Review quality inspection protocols on Line B.",
      "Current performance is above target. Maintain current practices.">>

maintenance_equipment_list ==
    <<"CNC Machine #1: Healthy (92% health score)",
      "CNC Machine #2: Healthy (88% health score)",
      "CNC Machine #3: Attention needed (65% health score)",
      "Robot Arm A: Healthy (94% health score)",
      "Press Machine: Maintenance due in 3 days">>

maintenance_schedule ==
    <<"CNC Machine #3: Bearing replacement - Feb 5",
      "Press Machine: Full inspection - Feb 7",
      "Conveyor System: Belt check - Feb 10">>

energy_recommendations ==
    <<"Shift peak operations to off-peak hours (10 PM - 6 AM)",
      "Install VFDs on main motors - potential 15% savings",
      "Fix compressed air leaks detected in Zone 3",
      "Optimize HVAC scheduling based on occupancy">>

quality_defect_types ==
    <<"1. Surface scratches: 35%",
      "2. Dimensional errors: 28%",
      "3. Color variations: 20%",
      "4. Weld defects: 17%">>

quality_insights ==
    <<"Temperature fluctuations on Line B correlate with increased defects.",
      "Morning shift shows 15% better quality metrics than night shift.",
      "Consider recalibrating sensors on Station 5.",
      "Quality trending upward - maintain current process parameters.">>

production_line_production ==
    <<"Line A (Assembly): 1,350 units (102% of target)",
      "Line B (Welding): 1,180 units (94% of target)",
      "Line C (Painting): 980 units (98% of target)",
      "Line D (Packaging): 1,420 units (108% of target)">>

alert_alerts ==
    <<"CRITICAL: Temperature threshold exceeded on CNC #3",
      "WARNING: Vibration anomaly on Robot Arm A",
      "WARNING: Energy consumption 15% above baseline",
      "INFO: Scheduled maintenance reminder for tomorrow">>

alert_actions ==
    <<"1. Immediately check CNC Machine #3 cooling system",
      "2. Schedule inspection for Robot Arm A bearings",
      "3. Review energy usage patterns for optimization",
      "4. Confirm maintenance crew availability for tomorrow">>

anomaly_anomaly_list ==
    <<"14:23 - Pressure spike on Hydraulic System (+45%)",
      "11:47 - Temperature drift on Motor 2 (+12C)",
      "09:15 - Vibration pattern change on Conveyor">>

anomaly_root_causes ==
    <<"Pattern suggests bearing degradation in hydraulic pump.",
      "Cooling system efficiency may be reduced - check filters.",
      "Likely caused by belt tension variation.">>

summary_health_statuses ==
    <<"Good",
      "Excellent",
      "Needs Attention">>

summary_priorities ==
    <<"Address CNC Machine #3 temperature warning",
      "Complete scheduled maintenance on Press Machine",
      "Review Line B quality metrics",
      "All systems operating normally">>

optimize_high_impact ==
    <<"1. Implement predictive maintenance on CNC machines (-30% downtime)",
      "2. Optimize batch scheduling to reduce changeover time",
      "3. Install real-time quality monitoring on Line B">>

optimize_medium_impact ==
    <<"1. Upgrade to energy-efficient motors on conveyor system",
      "2. Implement automated defect detection using computer vision",
      "3. Cross-train operators for multi-line capability">>

optimize_quick_wins ==
    <<"1. Adjust temperature setpoints based on AI recommendations",
      "2. Reschedule energy-intensive operations to off-peak hours",
      "3. Update SPC control limits based on recent data">>

\* ------------------------------------------------- _generate_response
\* self.context.get(key, default)
get(ctx, key, default) == IF key \in DOMAIN ctx THEN ctx[key] ELSE default

\* the oee branch that samples the OEE whatever the context holds
oee_kwargs_sampled(ctx, r) ==
    [oee            |-> uniform(7800, 9200, r, 0),
     availability   |-> uniform(8800, 9600, r, 1),
     performance    |-> uniform(8500, 9500, r, 2),
     quality        |-> uniform(9500, 9950, r, 3),
     recommendation |-> PyStr(<<choice(oee_recommendations, r, 4)>>)]

\* the default of get is evaluated first and so always draws
oee_kwargs(ctx, r) ==
    [oee            |-> get(ctx, "oee", uniform(7800, 9200, r, 0)),
     availability   |-> uniform(8800, 9600, r, 1),
     performance    |-> uniform(8500, 9500, r, 2),
     quality        |-> uniform(9500, 9950, r, 3),
     recommendation |-> PyStr(<<choice(oee_recommendations, r, 4)>>)]

\* the maintenance arguments without the savings
maintenance_kwargs_partial(r) ==
    [equipment_status     |-> PyStr(Join(maintenance_equipment_list)),
     maintenance_schedule |-> PyStr(Join(maintenance_schedule))]

maintenance_kwargs(r) ==
    [equipment_status     |-> PyStr(Join(maintenance_equipment_list)),
     maintenance_schedule |-> PyStr(Join(maintenance_schedule)),
     savings              |-> randint(15000, 45000, r, 0)]

energy_kwargs(r) ==
    [today_kwh       |-> uniform(1500000, 1800000, r, 0),
     peak_kw         |-> uniform(80000, 120000, r, 1),
     cost            |-> uniform(180000, 250000, r, 2),
     carbon          |-> uniform(800000, 1200000, r, 3),
     recommendations |-> PyStr(Join(energy_recommendations))]

\* the quality arguments without the insight
quality_kwargs_partial(r) ==
    [fpy          |-> uniform(9500, 9900, r, 0),
     defect_rate  |-> uniform(50, 150, r, 1),
     rework_rate  |-> uniform(80, 200, r, 2),
     defect_types |-> PyStr(Join(quality_defect_types))]

quality_kwargs(r) ==
    [fpy          |-> uniform(9500, 9900, r, 0),
     defect_rate  |-> uniform(50, 150, r, 1),
     rework_rate  |-> uniform(80, 200, r, 2),
     defect_types |-> PyStr(Join(quality_defect_types)),
     insight      |-> PyStr(<<choice(quality_insights, r, 3)>>)]

production_kwargs(r) ==
    [units           |-> randint(4500, 5500, r, 0),
     target_pct      |-> uniform(9200, 10500, r, 1),
     cycle_time      |-> uniform(1200, 1600, r, 2),
     throughput      |-> uniform(20000, 25000, r, 3),
     line_production |-> PyStr(Join(production_line_production))]

alert_kwargs ==
    [alerts  |-> PyStr(Join(alert_alerts)),
     actions |-> PyStr(Join(alert_actions))]

anomaly_kwargs(r) ==
    [count        |-> randint(3, 12, r, 0),
     rate         |-> uniform(50, 250, r, 1),
     confidence   |-> uniform(9200, 9800, r, 2),
     anomaly_list |-> PyStr(Join(anomaly_anomaly_list)),
     root_cause   |-> PyStr(<<choice(anomaly_root_causes, r, 3)>>)]

summary_kwargs(r) ==
    [units            |-> randint(4500, 5500, r, 0),
     target_pct       |-> uniform(9200, 10500, r, 1),
     oee              |-> uniform(7800, 9200, r, 2),
     energy           |-> uniform(1500000, 1800000, r, 3),
     cost             |-> uniform(180000, 250000, r, 4),
     fpy              |-> uniform(9500, 9900, r, 5),
     defect_rate      |-> uniform(50, 150, r, 6),
     health_status    |-> PyStr(<<choice(summary_health_statuses, r, 7)>>),
     next_maintenance |-> PyStr(<<"Feb 5, 2026">>),
     alert_count      |-> randint(2, 6, r, 8),
     priority         |-> PyStr(<<choice(summary_priorities, r, 9)>>)]

optimize_kwargs(r) ==
    [high_impact         |-> PyStr(Join(optimize_high_impact)),
     medium_impact       |-> PyStr(Join(optimize_medium_impact)),
     quick_wins          |-> PyStr(Join(optimize_quick_wins)),
     oee_improvement     |-> uniform(300, 800, r, 0),
     energy_savings      |-> randint(10, 20, r, 1),
     quality_improvement |-> uniform(50, 200, r, 2)]

\* _generate_response(topic) with self.context = ctx and generator state r
\* the keyword arguments the branch of a topic passes to template.format
format_kwargs(topic, ctx, r) ==
    CASE topic = "oee"         -> oee_kwargs(ctx, r)
      [] topic = "maintenance" -> maintenance_kwargs(r)
      [] topic = "energy"      -> energy_kwargs(r)
      [] topic = "quality"     -> quality_kwargs(r)
      [] topic = "production"  -> production_kwargs(r)
      [] topic = "alert"       -> alert_kwargs
      [] topic = "anomaly"     -> anomaly_kwargs(r)
      [] topic = "summary"     -> summary_kwargs(r)
      [] topic = "optimize"    -> optimize_kwargs(r)
      [] OTHER                 -> <<>>

\* a _generate_response whose help text shows the values of the context
generate_response_help_in_context(topic, ctx, r) ==
    IF topic = "help"
    THEN Returned([template |-> topic,
                   fields |-> [k \in DOMAIN ctx |-> FormatValue("", ctx[k]).text]])
    ELSE FormatTemplate(topic, TopicInfo(topic).placeholders,
                        format_kwargs(topic, ctx, r))

generate_response(topic, ctx, r) ==
    LET template == TopicInfo(topic).placeholders
    IN  CASE topic = "oee"         -> FormatTemplate(topic, template, oee_kwargs(ctx, r))
          [] topic = "maintenance" -> FormatTemplate(topic, template, maintenance_kwargs(r))
          [] topic = "energy"      -> FormatTemplate(topic, template, energy_kwargs(r))
          [] topic = "quality"     -> FormatTemplate(topic, template, quality_kwargs(r))
          [] topic = "production"  -> FormatTemplate(topic, template, production_kwargs(r))
          [] topic = "alert"       -> FormatTemplate(topic, template, alert_kwargs)
          [] topic = "anomaly"     -> FormatTemplate(topic, template, anomaly_kwargs(r))
          [] topic = "summary"     -> FormatTemplate(topic, template, summary_kwargs(r))
          [] topic = "optimize"    -> FormatTemplate(topic, template, optimize_kwargs(r))
          [] OTHER                 -> Returned([template |-> topic, fields |-> <<>>])

DefaultIds == <<"default_1", "default_2", "default_3">>

\* the fallback formatted with the whole query
default_response_whole(user_query, r) ==
    LET i == ((r + 0) % Len(default_responses)) + 1
    IN  FormatTemplate(DefaultIds[i], default_responses[i],
                       [query |-> PyStr(user_query)])

\* random.choice(self.default_responses).format(query=user_query[:50])
default_response(user_query, r) ==
    LET i == ((r + 0) % Len(default_responses)) + 1
    IN  FormatTemplate(DefaultIds[i], default_responses[i],
                       [query |-> PyStr(Prefix(user_query, QueryPrefixLen))])

\* ------------------------------------------------------------- inputs
EmptyContext == <<>>

\* generate_real_time_data(): what the host app passes as dashboard data,
\* one draw of it; of its keys the five numbers are kept, the chatbot
\* reading none of the nested structures (temperatures, machine_status,
\* quality_metrics)
CurrentData ==
    {[oee |-> PyFloat(8050), production_rate |-> PyFloat(20500),
      defect_rate |-> PyFloat(70), uptime |-> PyFloat(9710),
      energy_consumption |-> PyFloat(150000)]}

ContextMaps ==
    {EmptyContext,
     [oee |-> PyFloat(9990)],
     [oee |-> PyStr(<<"n", "/", "a">>)],
     [oee |-> PyBool(TRUE)],
     [oee |-> PyNone],
     [defect_rate |-> PyFloat(90)],
     [defect_rate |-> PyFloat(90), oee |-> PyFloat(8525)]} \cup CurrentData

\* the contexts of a session
SessionContexts ==
    {EmptyContext, [oee |-> PyFloat(9990)], [oee |-> PyStr(<<"n", "/", "a">>)]}

\* dashboard_data=None
NoData == [given |-> FALSE, data |-> EmptyContext]

Given(data) == [given |-> TRUE, data |-> data]

DashboardData == {NoData} \cup {Given(m) : m \in SessionContexts}

\* if dashboard_data is not None:
TruthyWhenGiven(dashboard_data) == dashboard_data.given

\* if dashboard_data:
Truthy(dashboard_data) == dashboard_data.given /\ dashboard_data.data # EmptyContext

\* the queries of a session
SessionQueries ==
    {<<"w","h","a","t"," ","i","s"," ","t","h","e"," ","o","e","e">>,
     <<" ","W","h","a","t"," ","i","s"," ","t","h","e"," ","O","E","E">>,
     <<"q","u","a","l","i","t","y"," ","a","l","e","r","t">>,
     <<"b","a","n","a","n","a"," ","s","a","n","d","w","i","c","h">>}

\* the tokens generated queries are made of
Tokens ==
    <<<<" ">>,
      <<"O","E","E">>,
      <<"o","e">>,
      <<"e">>,
      <<"q","u","a","l","i","t","y">>,
      <<"A","l","e","r","t">>,
      <<"h","e","l","p">>,
      <<"t","o","d","a","y">>,
      <<"b","a","n","a","n","a"," ","s","a","n","d","w","i","c","h">>,
      <<"w","h","a","t"," ","i","s"," ","t","h","e"," ","o","e","e">>,
      <<"L","i","n","e"," ","B"," ","p","e","r","f","o","r","m","i","n","g","?"," ","x","x","x","x","x","x","x","x","x","x","x","x","x","x","x","x","x","x","x","x","x","x","x","x","x","x","x","x","x","x","x">>>>

RECURSIVE Flatten(_)
Flatten(ts) == IF ts = <<>> THEN <<>> ELSE Tokens[Head(ts)] \o Flatten(Tail(ts))

GeneratedQueries ==
    {Flatten(ts) : ts \in UNION {[1..n -> 1..Len(Tokens)] : n \in 0..MaxTokens}}

\* the example questions of the help response, each with its heading and
\* its place under the heading
HelpExamples ==
    {[heading |-> "Analytics", item |-> 1,
      question |-> <<"W","h","a","t"," ","i","s"," ","t","h","e"," ","c","u","r","r","e","n","t"," ","O","E","E","?">>],
     [heading |-> "Analytics", item |-> 2,
      question |-> <<"S","h","o","w"," ","m","e"," ","e","n","e","r","g","y"," ","c","o","n","s","u","m","p","t","i","o","n">>],
     [heading |-> "Analytics", item |-> 3,
      question |-> <<"A","n","a","l","y","z","e"," ","p","r","o","d","u","c","t","i","o","n"," ","r","a","t","e","s">>],
     [heading |-> "Analytics", item |-> 4,
      question |-> <<"W","h","a","t","'","s"," ","t","h","e"," ","d","e","f","e","c","t"," ","r","a","t","e","?">>],
     [heading |-> "Maintenance", item |-> 1,
      question |-> <<"W","h","e","n"," ","i","s"," ","t","h","e"," ","n","e","x","t"," ","m","a","i","n","t","e","n","a","n","c","e","?">>],
     [heading |-> "Maintenance", item |-> 2,
      question |-> <<"W","h","i","c","h"," ","m","a","c","h","i","n","e","s"," ","n","e","e","d"," ","a","t","t","e","n","t","i","o","n","?">>],
     [heading |-> "Maintenance", item |-> 3,
      question |-> <<"P","r","e","d","i","c","t"," ","e","q","u","i","p","m","e","n","t"," ","f","a","i","l","u","r","e","s">>],
     [heading |-> "Alerts", item |-> 1,
      question |-> <<"S","h","o","w"," ","a","c","t","i","v","e"," ","a","l","e","r","t","s">>],
     [heading |-> "Alerts", item |-> 2,
      question |-> <<"A","n","y"," ","a","n","o","m","a","l","i","e","s"," ","d","e","t","e","c","t","e","d","?">>],
     [heading |-> "Alerts", item |-> 3,
      question |-> <<"W","h","a","t"," ","p","r","o","b","l","e","m","s"," ","n","e","e","d"," ","a","t","t","e","n","t","i","o","n","?">>],
     [heading |-> "Insights", item |-> 1,
      question |-> <<"G","i","v","e"," ","m","e"," ","o","p","t","i","m","i","z","a","t","i","o","n"," ","t","i","p","s">>],
     [heading |-> "Insights", item |-> 2,
      question |-> <<"H","o","w"," ","c","a","n"," ","w","e"," ","i","m","p","r","o","v","e"," ","e","f","f","i","c","i","e","n","c","y","?">>],
     [heading |-> "Insights", item |-> 3,
      question |-> <<"S","u","m","m","a","r","i","z","e"," ","t","o","d","a","y","'","s"," ","p","e","r","f","o","r","m","a","n","c","e">>]}

ExampleQueries == {e.question : e \in HelpExamples}

\* the prompts of the five quick action buttons of the host app
quick_prompts ==
    <<<<"G","i","v","e"," ","m","e"," ","t","o","d","a","y","'","s"," ","s","u","m","m","a","r","y">>,
      <<"W","h","a","t"," ","m","a","i","n","t","e","n","a","n","c","e"," ","i","s"," ","n","e","e","d","e","d","?">>,
      <<"H","o","w"," ","i","s"," ","e","n","e","r","g","y"," ","c","o","n","s","u","m","p","t","i","o","n","?">>,
      <<"W","h","a","t","'","s"," ","t","h","e"," ","c","u","r","r","e","n","t"," ","q","u","a","l","i","t","y"," ","s","t","a","t","u","s","?">>,
      <<"H","o","w"," ","c","a","n"," ","w","e"," ","i","m","p","r","o","v","e"," ","e","f","f","i","c","i","e","n","c","y","?">>>>

\* what the user types into the chat input of the host app
ChatInputs ==
    {<<"W","h","a","t"," ","i","s"," ","t","h","e"," ","c","u","r","r","e","n","t"," ","O","E","E","?">>,
     <<" "," ">>}

Queries ==
    SessionQueries \cup GeneratedQueries \cup ExampleQueries
        \cup {quick_prompts[i] : i \in 1..Len(quick_prompts)} \cup ChatInputs

\* matched_topic of every query of the model, computed once
matched_topic_of == [q \in Queries |-> MatchTopic(query_lower(q))]

\* the response of every topic under every context and generator state of
\* the model, computed once
rendered ==
    [topic \in Topics, ctx \in ContextMaps, r \in Rng |-> generate_response(topic, ctx, r)]

\* -------------------------------------------------------------- state
VARIABLES
    context,               \* self.context
    conversation_history,  \* self.conversation_history
    now,                   \* the wall clock, in seconds
    call,                  \* the arguments of the latest get_response call
    result,                \* what the latest operation did
    asked,                 \* the get_response calls made since the last clear
    held,                  \* the list a caller keeps from get_conversation_history
    threads,               \* the get_response calls in progress, one per thread
    session,               \* st.session_state of the host app
    builder,               \* the dashboard builder's part of st.session_state
    preview                \* the position of render_preview_mode in its loop

vars == <<context, conversation_history, now, call, result, asked,
          held, threads, session, builder, preview>>

\* the state outside the ManufacturingChatbot instance and its one caller
host == <<held, threads, session, builder, preview>>

\* the list a caller got from get_conversation_history and kept: turns is
\* what the caller sees in it, alias tells whether it is the very list the
\* chatbot appends to
NoHeld == [alias |-> FALSE, turns |-> <<>>]

NoThreads == <<>>

\* user_info = None
NoUserInfo == [password |-> None, name |-> None, role |-> None]

\* chatbot tells whether st.session_state.chatbot exists; authors (not a
\* field of the program) holds the users whose questions are in
\* chat_messages; chat_input_key, which only names the input widget, is
\* left out
NoSession == [authenticated |-> FALSE, username |-> None, user_info |-> NoUserInfo,
              chatbot |-> FALSE, chat_messages |-> <<>>, authors |-> {}]

\* builder_widgets is a list of references to the widget dicts in objects;
\* each saved dashboard holds its own list of references
NoBuilder == [widgets |-> <<>>, dashboards |-> {}, objects |-> <<>>, mode |-> "builder"]

\* render_preview_mode is not running: widgets is the list it lays out (of
\* each widget its 'size' entry), i its loop index, shown what it has
\* rendered so far and where
NoPreview == [widgets |-> <<>>, i |-> 0, shown |-> <<>>, done |-> TRUE]

\* nothing but the chatbot and its caller is running
InitHost ==
    /\ held = NoHeld
    /\ threads = NoThreads
    /\ session = NoSession
    /\ builder = NoBuilder
    /\ preview = NoPreview

NoCall == [user_query |-> <<>>, dashboard_data |-> NoData]

\* value is the list an operation returned, prior the length of the log
\* before the operation
NoResult ==
    [op |-> "none", status |-> "returned", response |-> NoResponse,
     matched_topic |-> None, prior |-> 0, value |-> <<>>]

Done(op, prior) ==
    [op |-> op, status |-> "returned", response |-> NoResponse,
     matched_topic |-> None, prior |-> prior, value |-> <<>>]

Two(n) == <<DigitChars[(n \div 10) + 1], DigitChars[(n % 10) + 1]>>

\* datetime.now().strftime('%H:%M:%S')
\* strftime('%H:%M:00'): the time of day without its seconds
strftime_minutes(t) ==
    Two((t \div 3600) % 24) \o <<":">> \o Two((t \div 60) % 60) \o <<":", "0", "0">>

strftime(t) ==
    Two((t \div 3600) % 24) \o <<":">> \o Two((t \div 60) % 60) \o <<":">> \o Two(t % 60)

\* __init__
Init ==
    /\ context = EmptyContext
    /\ conversation_history = <<>>
    /\ now = 0
    /\ call = NoCall
    /\ result = NoResult
    /\ asked = <<>>
    /\ InitHost

\* if dashboard_data: self.context = dashboard_data, forgetting the stored
\* context when none is passed
ContextForCallOnly(ctx, dashboard_data) ==
    IF Truthy(dashboard_data) THEN dashboard_data.data ELSE EmptyContext

\* if dashboard_data: self.context = dashboard_data
ContextForCall(ctx, dashboard_data) ==
    IF Truthy(dashboard_data) THEN dashboard_data.data ELSE ctx

\* the log with the new turn put first
PrependTurn(history, turn) == <<turn>> \o history

\* the log with the new turn holding the normalized query
AppendTurnNormalized(history, turn) ==
    Append(history, [turn EXCEPT !.user = query_lower(turn.user)])

\* self.conversation_history.append({...})
AppendTurn(history, turn) == Append(history, turn)

\* a get_response whose topic loop stops at the first or at the last topic
\* with a keyword in the query, as the generator state decides
get_response_any_match(user_query, dashboard_data, r) ==
    LET ctx           == ContextForCall(context, dashboard_data)
        matched_topic == IF r % 2 = 0 THEN matched_topic_of[user_query]
                         ELSE MatchTopicNoBreak(query_lower(user_query))
        out           == IF matched_topic # None
                         THEN rendered[matched_topic, ctx, r]
                         ELSE default_response(user_query, r)
    IN  /\ Len(asked) < MaxCalls
        /\ context' = ctx
        /\ conversation_history' =
              IF out.status = "returned"
              THEN AppendTurn(conversation_history,
                              [timestamp |-> strftime(now),
                               user      |-> user_query,
                               assistant |-> out.response])
              ELSE conversation_history
        /\ call' = [user_query |-> user_query, dashboard_data |-> dashboard_data]
        /\ result' = [op |-> "get_response", status |-> out.status,
                      response |-> out.response, matched_topic |-> matched_topic,
                      prior |-> Len(conversation_history), value |-> <<>>]
        /\ asked' = Append(asked, [user_query |-> user_query,
                                   matched_topic |-> matched_topic,
                                   returned |-> out.status = "returned",
                                   at |-> now])
        /\ UNCHANGED now

\* a get_response that logs the turn before it renders the response
get_response_log_first(user_query, dashboard_data, r) ==
    LET ctx           == ContextForCall(context, dashboard_data)
        matched_topic == matched_topic_of[user_query]
        out           == IF matched_topic # None
                         THEN rendered[matched_topic, ctx, r]
                         ELSE default_response(user_query, r)
    IN  /\ Len(asked) < MaxCalls
        /\ context' = ctx
        /\ conversation_history' =
              AppendTurn(conversation_history,
                         [timestamp |-> strftime(now),
                          user      |-> user_query,
                          assistant |-> out.response])
        /\ call' = [user_query |-> user_query, dashboard_data |-> dashboard_data]
        /\ result' = [op |-> "get_response", status |-> out.status,
                      response |-> out.response, matched_topic |-> matched_topic,
                      prior |-> Len(conversation_history), value |-> <<>>]
        /\ asked' = Append(asked, [user_query |-> user_query,
                                   matched_topic |-> matched_topic,
                                   returned |-> out.status = "returned",
                                   at |-> now])
        /\ UNCHANGED now

\* get_response(user_query, dashboard_data) with generator state r
get_response(user_query, dashboard_data, r) ==
    LET ctx           == ContextForCall(context, dashboard_data)
        matched_topic == matched_topic_of[user_query]
        out           == IF matched_topic # None
                         THEN rendered[matched_topic, ctx, r]
                         ELSE default_response(user_query, r)
    IN  /\ Len(asked) < MaxCalls
        /\ context' = ctx
        /\ conversation_history' =
              IF out.status = "returned"
              THEN AppendTurn(conversation_history,
                              [timestamp |-> strftime(now),
                               user      |-> user_query,
                               assistant |-> out.response])
              ELSE conversation_history
        /\ call' = [user_query |-> user_query, dashboard_data |-> dashboard_data]
        /\ result' = [op |-> "get_response", status |-> out.status,
                      response |-> out.response, matched_topic |-> matched_topic,
                      prior |-> Len(conversation_history), value |-> <<>>]
        /\ asked' = Append(asked, [user_query |-> user_query,
                                   matched_topic |-> matched_topic,
                                   returned |-> out.status = "returned",
                                   at |-> now])
        /\ UNCHANGED now

GetResponse ==
    \E user_query \in SessionQueries, dashboard_data \in DashboardData, r \in Rng :
        get_response(user_query, dashboard_data, r)

\* update_context(data)
update_context(data) ==
    /\ context' = data
    /\ result' = Done("update_context", Len(conversation_history))
    /\ UNCHANGED <<conversation_history, now, call, asked>>

UpdateContext == \E data \in SessionContexts : update_context(data)

\* a get_conversation_history() that hands the turns over and forgets them
get_conversation_history_consuming ==
    /\ result' = [Done("get_conversation_history", Len(conversation_history))
                     EXCEPT !.value = conversation_history]
    /\ conversation_history' = <<>>
    /\ UNCHANGED <<context, now, call, asked>>

\* get_conversation_history()
get_conversation_history ==
    /\ result' = [Done("get_conversation_history", Len(conversation_history))
                     EXCEPT !.value = conversation_history]
    /\ UNCHANGED <<context, conversation_history, now, call, asked>>

\* clear_history() that drops the oldest turn only
DropOldest(history) == IF history = <<>> THEN <<>> ELSE Tail(history)

\* self.conversation_history = []
Cleared(history) == <<>>

\* clear_history()
clear_history ==
    /\ conversation_history' = Cleared(conversation_history)
    /\ result' = Done("clear_history", Len(conversation_history))
    /\ asked' = <<>>
    /\ UNCHANGED <<context, now, call>>

Next ==
    \/ GetResponse /\ UNCHANGED host
    \/ UpdateContext /\ UNCHANGED host
    \/ get_conversation_history /\ UNCHANGED host
    \/ clear_history /\ UNCHANGED host

Spec == Init /\ [][Next]_vars

\* ------------------------------------- one call on a generated query
QueryContexts == {EmptyContext, [oee |-> PyFloat(9990)]}

QueryData ==
    {NoData, Given(EmptyContext),
     Given([oee |-> PyFloat(9990)]), Given([defect_rate |-> PyFloat(90)]),
     Given([defect_rate |-> PyFloat(90), oee |-> PyFloat(8525)])}

InitQuery ==
    /\ context \in QueryContexts
    /\ conversation_history = <<>>
    /\ now = 0
    /\ call \in {[user_query |-> q, dashboard_data |-> d] :
                    q \in GeneratedQueries, d \in QueryData}
    /\ result = NoResult
    /\ asked = <<>>
    /\ InitHost

Respond ==
    /\ result.op = "none"
    /\ \E r \in Rng : get_response(call.user_query, call.dashboard_data, r)

NextQuery == Respond /\ UNCHANGED host

SpecQuery == InitQuery /\ [][NextQuery]_vars

\* ------------------------------ one call on a question of the help text
InitExamples ==
    /\ context \in QueryContexts
    /\ conversation_history = <<>>
    /\ now = 0
    /\ call \in {[user_query |-> q, dashboard_data |-> d] :
                    q \in ExampleQueries, d \in QueryData}
    /\ result = NoResult
    /\ asked = <<>>
    /\ InitHost

SpecExamples == InitExamples /\ [][NextQuery]_vars

\* --------------------------------------- one rendering of one topic
\* the topic to render waits in result.matched_topic, self.context in context
InitRender ==
    /\ context \in ContextMaps
    /\ conversation_history = <<>>
    /\ now = 0
    /\ call = NoCall
    /\ result \in {[NoResult EXCEPT !.matched_topic = topic] : topic \in Topics}
    /\ asked = <<>>
    /\ InitHost

\* self._generate_response(matched_topic)
Render ==
    /\ result.op = "none"
    /\ \E r \in Rng :
          LET out == rendered[result.matched_topic, context, r]
          IN  result' = [op |-> "_generate_response", status |-> out.status,
                         response |-> out.response,
                         matched_topic |-> result.matched_topic,
                         prior |-> 0, value |-> <<>>]
    /\ UNCHANGED <<context, conversation_history, now, call, asked>>

NextRender == Render /\ UNCHANGED host

SpecRender == InitRender /\ [][NextRender]_vars

\* ------------------- a session of two questions around midnight
SecondsPerDay == 86400

\* the session starts at 23:59:58
ClockStart == SecondsPerDay - 2

ClockQueries ==
    {<<"w","h","a","t"," ","i","s"," ","t","h","e"," ","o","e","e">>,
     <<"b","a","n","a","n","a"," ","s","a","n","d","w","i","c","h">>}

InitClock ==
    /\ context = EmptyContext
    /\ conversation_history = <<>>
    /\ now = ClockStart
    /\ call = NoCall
    /\ result = NoResult
    /\ asked = <<>>
    /\ InitHost

\* a second passes
Tick ==
    /\ now < ClockStart + MaxTicks
    /\ now' = now + 1
    /\ UNCHANGED <<context, conversation_history, call, result, asked>>

GetResponseNow ==
    \E user_query \in ClockQueries, r \in Rng : get_response(user_query, NoData, r)

NextClock ==
    \/ GetResponseNow /\ UNCHANGED host
    \/ clear_history /\ UNCHANGED host
    \/ Tick /\ UNCHANGED host

SpecClock == InitClock /\ [][NextClock]_vars

\* ---------------------- get_response called from several threads
\* One instance, no lock.  A thread is switched out only between two
\* accesses to the instance: after the store into self.context (line 196),
\* after the read of self.context in _generate_response (line 231), and
\* after the append (lines 216-220, list.append being atomic).
Threads == 1..MaxThreads

ThreadData ==
    {NoData, Given([oee |-> PyFloat(9990)]),
     Given([defect_rate |-> PyFloat(90), oee |-> PyFloat(8525)])}

NoOut == [status |-> "none", response |-> NoResponse]

IdleThread == [pc |-> "idle", user_query |-> <<>>, dashboard_data |-> NoData,
               matched_topic |-> None, out |-> NoOut]

InProgress == Cardinality({t \in Threads : threads[t].pc # "idle"})

InitThreads ==
    /\ context = EmptyContext
    /\ conversation_history = <<>>
    /\ now = 0
    /\ call = NoCall
    /\ result = NoResult
    /\ asked = <<>>
    /\ held = NoHeld
    /\ threads = [t \in Threads |-> IdleThread]
    /\ session = NoSession
    /\ builder = NoBuilder
    /\ preview = NoPreview

\* lines 195-208: the store into self.context, then the topic loop
store_context(t, user_query, dashboard_data) ==
    /\ threads[t].pc = "idle"
    /\ Len(asked) + InProgress < MaxCalls
    /\ context' = ContextForCall(context, dashboard_data)
    /\ threads' = [threads EXCEPT ![t] =
                      [pc |-> "render", user_query |-> user_query,
                       dashboard_data |-> dashboard_data,
                       matched_topic |-> matched_topic_of[user_query],
                       out |-> NoOut]]
    /\ UNCHANGED <<conversation_history, now, call, result, asked>>

\* lines 210-213: the response, rendered from self.context as it is now
render_response(t, r) ==
    LET th  == threads[t]
        out == IF th.matched_topic # None
               THEN rendered[th.matched_topic, context, r]
               ELSE default_response(th.user_query, r)
    IN  /\ th.pc = "render"
        /\ threads' = [threads EXCEPT ![t].out = out,
                                      ![t].pc = IF out.status = "returned"
                                                THEN "append" ELSE "idle"]
        /\ asked' = Append(asked, [user_query |-> th.user_query,
                                   matched_topic |-> th.matched_topic,
                                   returned |-> out.status = "returned",
                                   at |-> now])
        /\ IF out.status = "raised"
           THEN /\ call' = [user_query |-> th.user_query,
                            dashboard_data |-> th.dashboard_data]
                /\ result' = [op |-> "get_response", status |-> "raised",
                              response |-> out.response,
                              matched_topic |-> th.matched_topic,
                              prior |-> Len(conversation_history), value |-> <<>>]
           ELSE UNCHANGED <<call, result>>
        /\ UNCHANGED <<context, conversation_history, now>>

\* lines 216-222: the append and the return
append_turn(t) ==
    LET th == threads[t]
    IN  /\ th.pc = "append"
        /\ conversation_history' =
              AppendTurn(conversation_history,
                         [timestamp |-> strftime(now),
                          user      |-> th.user_query,
                          assistant |-> th.out.response])
        /\ threads' = [threads EXCEPT ![t].pc = "idle"]
        /\ call' = [user_query |-> th.user_query, dashboard_data |-> th.dashboard_data]
        /\ result' = [op |-> "get_response", status |-> "returned",
                      response |-> th.out.response,
                      matched_topic |-> th.matched_topic,
                      prior |-> Len(conversation_history), value |-> <<>>]
        /\ UNCHANGED <<context, now, asked>>

StoreContext ==
    \E t \in Threads, user_query \in ClockQueries, dashboard_data \in ThreadData :
        store_context(t, user_query, dashboard_data)

RenderResponse == \E t \in Threads, r \in Rng : render_response(t, r)

AppendTheTurn == \E t \in Threads : append_turn(t)

NextThreads ==
    \/ StoreContext /\ UNCHANGED <<held, session, builder, preview>>
    \/ RenderResponse /\ UNCHANGED <<held, session, builder, preview>>
    \/ AppendTheTurn /\ UNCHANGED <<held, session, builder, preview>>

SpecThreads == InitThreads /\ [][NextThreads]_vars

\* ------------------------------------------------- the host app
USERS ==
    [admin    |-> [password |-> "admin123", name |-> "Administrator", role |-> "Admin"],
     operator |-> [password |-> "op123", name |-> "Plant Operator", role |-> "Operator"],
     manager  |-> [password |-> "mgr123", name |-> "Production Manager", role |-> "Manager"],
     demo     |-> [password |-> "demo", name |-> "Demo User", role |-> "Viewer"]]

\* an authenticate that looks at the username only
authenticate_by_name(username, password) ==
    IF username \in DOMAIN USERS
    THEN [success |-> TRUE, user_info |-> USERS[username]]
    ELSE [success |-> FALSE, user_info |-> NoUserInfo]

authenticate(username, password) ==
    IF username \in DOMAIN USERS /\ USERS[username].password = password
    THEN [success |-> TRUE, user_info |-> USERS[username]]
    ELSE [success |-> FALSE, user_info |-> NoUserInfo]

\* what is typed into the login form
LoginNames == {"admin", "demo", "guest", ""}

LoginPasswords == {"admin123", "demo", ""}

\* if not st.session_state.authenticated: show_login_page(); st.stop()
PassesGate(s) == s.authenticated

\* the Sign In button of show_login_page, shown while the gate is closed; on
\* success the script is rerun, passes the gate and creates the chatbot and
\* the message list unless the session has them
sign_in(username, password) ==
    LET complete == username # "" /\ password # ""
        checked  == authenticate(username, password)
    IN  /\ ~PassesGate(session)
        /\ IF complete /\ checked.success
           THEN /\ session' = [session EXCEPT !.authenticated = TRUE,
                                              !.username = username,
                                              !.user_info = checked.user_info,
                                              !.chatbot = TRUE]
                /\ context' = IF session.chatbot THEN context ELSE EmptyContext
                /\ conversation_history' =
                      IF session.chatbot THEN conversation_history ELSE <<>>
                /\ asked' = IF session.chatbot THEN asked ELSE <<>>
           ELSE UNCHANGED <<session, context, conversation_history, asked>>
        /\ result' = [Done("sign_in", Len(conversation_history)) EXCEPT
                         !.status = IF ~complete THEN "incomplete"
                                    ELSE IF checked.success THEN "accepted"
                                    ELSE "rejected",
                         !.value = <<username, password>>]
        /\ UNCHANGED <<now, call>>

SignIn == \E username \in LoginNames, password \in LoginPasswords : sign_in(username, password)

\* a Sign Out that also forgets the conversation
sign_out_forgetting ==
    /\ PassesGate(session)
    /\ session' = [session EXCEPT !.authenticated = FALSE,
                                  !.username = None,
                                  !.user_info = NoUserInfo,
                                  !.chat_messages = <<>>,
                                  !.authors = {}]
    /\ conversation_history' = <<>>
    /\ result' = Done("sign_out", Len(conversation_history))
    /\ UNCHANGED <<context, now, call, asked>>

\* the Sign Out button: logout(), st.rerun()
sign_out ==
    /\ PassesGate(session)
    /\ session' = [session EXCEPT !.authenticated = FALSE,
                                  !.username = None,
                                  !.user_info = NoUserInfo]
    /\ result' = Done("sign_out", Len(conversation_history))
    /\ UNCHANGED <<context, conversation_history, now, call, asked>>

UserMessage(content) == [role |-> "user", content |-> content]

AssistantMessage(content) == [role |-> "assistant", content |-> content]

\* chat_messages.append(user), chatbot.get_response(prompt, current_data),
\* chat_messages.append(assistant); an exception of get_response ends the
\* script run after the first append
ask(prompt, current_data, r) ==
    /\ PassesGate(session)
    /\ get_response(prompt, Given(current_data), r)
    /\ session' = [session EXCEPT
                      !.chat_messages =
                          IF result'.status = "returned"
                          THEN @ \o <<UserMessage(prompt),
                                      AssistantMessage(result'.response)>>
                          ELSE Append(@, UserMessage(prompt)),
                      !.authors = @ \cup {session.username}]

\* the buttons of the chat tab that submit a prompt
ChatButtons == {"quick", "send"}

\* what a button can submit: a quick action its own prompt, Send the input
ButtonTexts(button) ==
    IF button = "quick"
    THEN {quick_prompts[i] : i \in 1..Len(quick_prompts)}
    ELSE ChatInputs

\* one script run with a button pressed: a quick action submits its prompt
\* as it is, Send submits the input if user_input.strip() is not empty
press(button, text, current_data, r) ==
    IF button = "quick" \/ strip(text) # <<>>
    THEN ask(text, current_data, r)
    ELSE PassesGate(session) /\ UNCHANGED <<context, conversation_history, now, call,
                                           result, asked, session>>

\* a quick action or the Send button
ChatButton ==
    \E button \in ChatButtons :
        \E text \in ButtonTexts(button), current_data \in CurrentData, r \in Rng :
            press(button, text, current_data, r)

\* the Send button
Send ==
    \E user_input \in ButtonTexts("send"), current_data \in CurrentData, r \in Rng :
        press("send", user_input, current_data, r)

\* a Clear Chat that empties the message list only
clear_chat_messages_only ==
    /\ PassesGate(session)
    /\ session' = [session EXCEPT !.chat_messages = <<>>, !.authors = {}]
    /\ result' = Done("clear_history", Len(conversation_history))
    /\ UNCHANGED <<context, conversation_history, now, call, asked>>

\* the Clear Chat button
clear_chat ==
    /\ PassesGate(session)
    /\ clear_history
    /\ session' = [session EXCEPT !.chat_messages = <<>>, !.authors = {}]

\* the chat of a signed-in user
InitChat ==
    /\ context = EmptyContext
    /\ conversation_history = <<>>
    /\ now = 0
    /\ call = NoCall
    /\ result = NoResult
    /\ asked = <<>>
    /\ held = NoHeld
    /\ threads = NoThreads
    /\ session = [NoSession EXCEPT !.authenticated = TRUE,
                                   !.username = "admin",
                                   !.user_info = USERS["admin"],
                                   !.chatbot = TRUE]
    /\ builder = NoBuilder
    /\ preview = NoPreview

NextChat ==
    \/ ChatButton /\ UNCHANGED <<held, threads, builder, preview>>
    \/ clear_chat /\ UNCHANGED <<held, threads, builder, preview>>

SpecChat == InitChat /\ [][NextChat]_vars

\* signing in and out, with the chat input in between
NextLogin ==
    \/ SignIn /\ UNCHANGED <<held, threads, builder, preview>>
    \/ sign_out /\ UNCHANGED <<held, threads, builder, preview>>
    \/ Send /\ UNCHANGED <<held, threads, builder, preview>>
    \/ clear_chat /\ UNCHANGED <<held, threads, builder, preview>>

SpecLogin == Init /\ [][NextLogin]_vars

\* ------------------------------------------------- the dashboard builder
WIDGET_TYPES == [metric_card |-> [name |-> "Metric Card"]]

\* DashboardConfig.get_widget_config(widget_type, position)
get_widget_config(widget_type, position) ==
    [id          |-> <<now, position>>,
     type        |-> widget_type,
     title       |-> WIDGET_TYPES[widget_type].name,
     data_source |-> "production",
     config      |-> {},
     size        |-> "medium",
     position    |-> position]

\* what the Configure inputs of a widget can be set to
ConfigInputs ==
    {<<"title", "Line 1">>, <<"data_source", "quality">>, <<"size", "full">>}

\* the field inputs of a widget type, with the values they can hold
FieldInputs(widget_type) ==
    IF widget_type = "metric_card" THEN {<<"value_field", "defect_rate">>} ELSE {}

\* list.pop(idx)
Pop(list, idx) == SubSeq(list, 1, idx - 1) \o SubSeq(list, idx + 1, Len(list))

\* the widget dicts a list of references leads to
Widgets(objects, refs) == [k \in 1..Len(refs) |-> objects[refs[k]]]

\* the Builder Mode and Preview Mode buttons
set_mode(mode) ==
    /\ builder' = [builder EXCEPT !.mode = mode]
    /\ UNCHANGED <<context, conversation_history, now, call, result, asked>>

\* the add button of a widget of the library
add_widget(widget_type) ==
    /\ builder.mode = "builder"
    /\ Len(builder.objects) < MaxWidgets
    /\ builder' = [builder EXCEPT
                      !.objects = Append(@, get_widget_config(widget_type,
                                                               Len(builder.widgets))),
                      !.widgets = Append(@, Len(builder.objects) + 1)]
    /\ UNCHANGED <<context, conversation_history, now, call, result, asked>>

\* a Configure input changed: builder_widgets[idx][key] = value
configure(idx, key, value) ==
    /\ builder.mode = "builder"
    /\ idx \in 1..Len(builder.widgets)
    /\ builder.objects[builder.widgets[idx]][key] # value
    /\ builder' = [builder EXCEPT !.objects[builder.widgets[idx]][key] = value]
    /\ UNCHANGED <<context, conversation_history, now, call, result, asked>>

\* a field input: builder_widgets[idx]['config'][key] = value
configure_field(idx, key, value) ==
    /\ builder.mode = "builder"
    /\ idx \in 1..Len(builder.widgets)
    /\ <<key, value>> \in FieldInputs(builder.objects[builder.widgets[idx]].type)
    /\ builder' = [builder EXCEPT
                      !.objects[builder.widgets[idx]].config =
                          {f \in @ : f[1] # key} \cup {<<key, value>>}]
    /\ UNCHANGED <<context, conversation_history, now, call, result, asked>>

\* Remove Widget: builder_widgets.pop(idx)
remove_widget(idx) ==
    /\ builder.mode = "builder"
    /\ idx \in 1..Len(builder.widgets)
    /\ builder' = [builder EXCEPT !.widgets = Pop(@, idx)]
    /\ UNCHANGED <<context, conversation_history, now, call, result, asked>>

\* Save Dashboard: builder_dashboards[name] = {'widgets':
\* builder_widgets.copy(), ...}, the name made of the second of the click
save_dashboard ==
    /\ (\E d \in builder.dashboards : d.name = now)
          \/ Cardinality(builder.dashboards) < MaxSaved
    /\ IF builder.widgets # <<>>
       THEN builder' = [builder EXCEPT
                           !.dashboards =
                               {d \in @ : d.name # now}
                               \cup {[name     |-> now,
                                      widgets  |-> builder.widgets,
                                      created  |-> now]}]
       ELSE UNCHANGED builder
    /\ UNCHANGED <<context, conversation_history, now, call, result, asked>>

\* Clear All: builder_widgets = []
clear_all ==
    /\ builder' = [builder EXCEPT !.widgets = <<>>]
    /\ UNCHANGED <<context, conversation_history, now, call, result, asked>>

\* Load: builder_widgets = dashboard['widgets'].copy(), builder_mode = 'preview'
load_dashboard(name) ==
    /\ \E d \in builder.dashboards :
          /\ d.name = name
          /\ builder' = [builder EXCEPT !.widgets = d.widgets, !.mode = "preview"]
    /\ UNCHANGED <<context, conversation_history, now, call, result, asked>>

\* Delete: del builder_dashboards[name]
delete_dashboard(name) ==
    /\ \E d \in builder.dashboards : d.name = name
    /\ builder' = [builder EXCEPT !.dashboards = {d \in @ : d.name # name}]
    /\ UNCHANGED <<context, conversation_history, now, call, result, asked>>

SetMode == \E mode \in {"builder", "preview"} : set_mode(mode)

AddWidget == \E widget_type \in DOMAIN WIDGET_TYPES : add_widget(widget_type)

Configure ==
    \E idx \in 1..MaxWidgets, input \in ConfigInputs : configure(idx, input[1], input[2])

ConfigureField ==
    \E idx \in 1..MaxWidgets, widget_type \in DOMAIN WIDGET_TYPES :
        \E input \in FieldInputs(widget_type) : configure_field(idx, input[1], input[2])

RemoveWidget == \E idx \in 1..MaxWidgets : remove_widget(idx)

LoadDashboard == \E d \in builder.dashboards : load_dashboard(d.name)

DeleteDashboard == \E d \in builder.dashboards : delete_dashboard(d.name)

NextBuilder ==
    \/ SetMode /\ UNCHANGED <<held, threads, session, preview>>
    \/ AddWidget /\ UNCHANGED <<held, threads, session, preview>>
    \/ Configure /\ UNCHANGED <<held, threads, session, preview>>
    \/ ConfigureField /\ UNCHANGED <<held, threads, session, preview>>
    \/ RemoveWidget /\ UNCHANGED <<held, threads, session, preview>>
    \/ save_dashboard /\ UNCHANGED <<held, threads, session, preview>>
    \/ clear_all /\ UNCHANGED <<held, threads, session, preview>>
    \/ LoadDashboard /\ UNCHANGED <<held, threads, session, preview>>
    \/ DeleteDashboard /\ UNCHANGED <<held, threads, session, preview>>
    \/ Tick /\ UNCHANGED host

SpecBuilder == InitClock /\ [][NextBuilder]_vars

\* ------------------------------------------------- the dashboard preview
\* the 'size' entry of a widget: one of the four sizes of the builder, any
\* other value, or None for a widget without the entry
Sizes == {"small", "medium", "large", "full", "huge", None}

\* widget.get('size', 'medium')
SizeOrMedium(size) == IF size = None THEN "medium" ELSE size

\* WidgetRenderer.render_widget(widgets[i]) in column `column` of a row of
\* `columns` columns; i counts from 0
Rendered(p, i, columns, column) ==
    [index |-> i, row |-> p.i, columns |-> columns, column |-> column]

\* i < len(widgets) and widgets[i].get('size') in sizes
NextIs(p, i, sizes) == i < Len(p.widgets) /\ p.widgets[i + 1] \in sizes

\* a loop body that lays the widgets out in rows of two and, having rendered
\* a small widget beside the first of a row, stays on it
loop_body_staying(p) ==
    LET size == SizeOrMedium(p.widgets[p.i + 1])
        lead == [p EXCEPT !.i = @ + 1,
                          !.shown = Append(@, Rendered(p, p.i, 2, 1))]
    IN  IF size \in {"large", "medium"} /\ NextIs(p, p.i + 1, {"small"})
        THEN [lead EXCEPT !.shown = Append(@, Rendered(p, p.i + 1, 2, 2))]
        ELSE lead

\* the third column of a row of small widgets
third_column(p, q) ==
    IF NextIs(q, q.i, {"small"})
    THEN [q EXCEPT !.i = @ + 1, !.shown = Append(@, Rendered(p, q.i, 3, 3))]
    ELSE q

\* for j in range(1, 3): if the next widget is small, render it in cols[j]
more_columns(p, q) ==
    IF NextIs(q, q.i, {"small"})
    THEN third_column(p, [q EXCEPT !.i = @ + 1,
                                   !.shown = Append(@, Rendered(p, q.i, 3, 2))])
    ELSE third_column(p, q)

\* one pass of the body of 'while i < len(widgets)'
loop_body(p) ==
    LET size == SizeOrMedium(p.widgets[p.i + 1])
        lead(columns) == [p EXCEPT !.i = @ + 1,
                                   !.shown = Append(@, Rendered(p, p.i, columns, 1))]
        second(q, sizes) ==
            IF NextIs(q, q.i, sizes)
            THEN [q EXCEPT !.i = @ + 1, !.shown = Append(@, Rendered(p, q.i, 2, 2))]
            ELSE q
    IN  IF size = "full" THEN lead(1)
        ELSE IF size = "large" THEN second(lead(2), {"small"})
        ELSE IF size = "medium" THEN second(lead(2), {"medium", "small"})
        ELSE more_columns(p, lead(3))

\* the lists render_preview_mode is given
PreviewLists == UNION {[1..n -> Sizes] : n \in 0..MaxPreview}

InitPreview ==
    /\ context = EmptyContext
    /\ conversation_history = <<>>
    /\ now = 0
    /\ call = NoCall
    /\ result = NoResult
    /\ asked = <<>>
    /\ held = NoHeld
    /\ threads = NoThreads
    /\ session = NoSession
    /\ builder = NoBuilder
    /\ \E widgets \in PreviewLists :
          preview = [widgets |-> widgets, i |-> 0, shown |-> <<>>, done |-> FALSE]

\* while i < len(widgets): one pass
preview_pass ==
    /\ ~preview.done
    /\ preview.i < Len(preview.widgets)
    /\ preview' = loop_body(preview)
    /\ UNCHANGED <<context, conversation_history, now, call, result, asked>>

\* the loop condition fails (or the list is empty): the function returns
preview_return ==
    /\ ~preview.done
    /\ ~(preview.i < Len(preview.widgets))
    /\ preview' = [preview EXCEPT !.done = TRUE]
    /\ UNCHANGED <<context, conversation_history, now, call, result, asked>>

NextPreview ==
    \/ preview_pass /\ UNCHANGED <<held, threads, session, builder>>
    \/ preview_return /\ UNCHANGED <<held, threads, session, builder>>

SpecPreview == InitPreview /\ [][NextPreview]_vars

\* the script runs on: a pass or the return that can be taken is taken
FairPreview == SpecPreview /\ WF_vars(NextPreview)

\* the whole of render_preview_mode on a list: what it has rendered when it
\* returns
RECURSIVE run_loop(_)
run_loop(p) == IF p.i < Len(p.widgets) THEN run_loop(loop_body(p)) ELSE p.shown

render_preview_mode(widgets) ==
    run_loop([widgets |-> widgets, i |-> 0, shown |-> <<>>, done |-> FALSE])

\* ----------------------------------- a caller that keeps the history
\* return self.conversation_history: the caller holds the list itself
HeldAfterReturn(history) == [alias |-> TRUE, turns |-> history]

\* self.conversation_history.append(...): seen through the list held
HeldAfterAppend(h, history) == IF h.alias THEN [h EXCEPT !.turns = history] ELSE h

\* a clear that empties the list in place
HeldAfterClearInPlace(h) == IF h.alias THEN [h EXCEPT !.turns = <<>>] ELSE h

\* self.conversation_history = []: the list held is the log no longer
HeldAfterClear(h) == [h EXCEPT !.alias = FALSE]

KeepHistory ==
    /\ get_conversation_history
    /\ held' = HeldAfterReturn(conversation_history)

AskWhileHeld ==
    /\ GetResponseNow
    /\ held' = HeldAfterAppend(held, conversation_history')

ClearWhileHeld ==
    /\ clear_history
    /\ held' = HeldAfterClear(held)

NextHeld ==
    \/ KeepHistory /\ UNCHANGED <<threads, session, builder, preview>>
    \/ AskWhileHeld /\ UNCHANGED <<threads, session, builder, preview>>
    \/ ClearWhileHeld /\ UNCHANGED <<threads, session, builder, preview>>

SpecHeld == Init /\ [][NextHeld]_vars

\* ------------------------- a session of two questions, every operation
NextLog ==
    \/ GetResponseNow /\ UNCHANGED host
    \/ UpdateContext /\ UNCHANGED host
    \/ get_conversation_history /\ UNCHANGED host
    \/ clear_history /\ UNCHANGED host

SpecLog == Init /\ [][NextLog]_vars

\* ------------------------------------------------------- reading text
DigitValue(c) == CHOOSE d \in 0..9 : DigitChars[d + 1] = c

RECURSIVE ReadDigits(_)
ReadDigits(t) ==
    IF t = <<>> THEN 0
    ELSE 10 * ReadDigits(SubSeq(t, 1, Len(t) - 1)) + DigitValue(t[Len(t)])

\* the number a formatted text shows, in hundredths
Shown(text) ==
    LET t    == SelectSeq(text, LAMBDA c : c # ",")
        dots == {i \in 1..Len(t) : t[i] = "."}
    IN  IF dots = {} THEN 100 * ReadDigits(t)
        ELSE LET dot  == CHOOSE i \in dots : TRUE
                 frac == SubSeq(t, dot + 1, Len(t))
             IN  100 * ReadDigits(SubSeq(t, 1, dot - 1))
                 + (IF Len(frac) = 1 THEN 10 * ReadDigits(frac) ELSE ReadDigits(frac))

Near(a, b) == a - b <= 5 /\ b - a <= 5

\* every query of the model lower-cased, then trimmed
normalized_of == [q \in Queries |-> strip(lower(q))]

\* the query as classification sees it
Normalized(q) == normalized_of[q]

HasKeyword(topic, q) ==
    \E j \in 1..Len(TopicInfo(topic).keywords) : Contains(TopicInfo(topic).keywords[j], q)

DeclaredOrder ==
    <<"oee", "maintenance", "energy", "quality", "production",
      "alert", "anomaly", "help", "summary", "optimize">>

FirstDeclared(q) ==
    LET hits == {i \in 1..Len(DeclaredOrder) : HasKeyword(DeclaredOrder[i], q)}
    IN  IF hits = {} THEN None
        ELSE DeclaredOrder[CHOOSE i \in hits : \A j \in hits : i <= j]

Answered == result.op = "get_response" /\ result.status = "returned"

\* the topic whose template the latest response was rendered from
AnsweredWith(topic) == Answered /\ result.response.template = topic

NoContextSupplied == ~Truthy(call.dashboard_data)

\* ---------------------------------------------------------------- C1
\* C1: the matched topic is the first topic, in the order oee, maintenance,
\* energy, quality, production, alert, anomaly, help, summary, optimize,
\* that has a keyword occurring in the normalized query; a returned
\* response is rendered from that topic's template.
C1_FirstDeclaredTopicWins ==
    result.op = "get_response" =>
        LET first == FirstDeclared(Normalized(call.user_query))
        IN  /\ result.matched_topic = first
            /\ (Answered /\ first # None) => result.response.template = first

\* a query with "quality" and "alert" and no keyword of an earlier topic is
\* answered with the quality topic
C1_Witness ==
    /\ AnsweredWith("quality")
    /\ HasKeyword("quality", Normalized(call.user_query))
    /\ HasKeyword("alert", Normalized(call.user_query))

\* ---------------------------------------------------------------- C2
\* C2 as stated: the log has one turn for every get_response call made since
\* the last clear, the i-th turn holding the query of the i-th call.
C2_OneTurnPerCall ==
    /\ Len(conversation_history) = Len(asked)
    /\ \A i \in 1..Len(asked) :
          i <= Len(conversation_history) =>
              conversation_history[i].user = asked[i].user_query

ReturnedCalls == SelectSeq(asked, LAMBDA a : a.returned)

\* C2 amended: the log has one turn for every get_response call since the
\* last clear that returned, the i-th turn holding the query of the i-th
\* such call; a call that raised left no turn.
C2_OneTurnPerReturnedCall ==
    /\ Len(conversation_history) = Len(ReturnedCalls)
    /\ \A i \in 1..Len(ReturnedCalls) :
          conversation_history[i].user = ReturnedCalls[i].user_query

C2_Witness ==
    /\ Len(conversation_history) = 2
    /\ conversation_history[1].user # conversation_history[2].user
    /\ conversation_history[1].assistant.template \in Topics
    /\ conversation_history[2].assistant.template \notin Topics

\* ---------------------------------------------------------------- C3
\* C3 as stated: a call that supplies no context shows, on the oee topic, an
\* OEE sampled from [78, 92].
C3_NoContextMeansSampled ==
    (AnsweredWith("oee") /\ NoContextSupplied) =>
        Shown(result.response.fields.oee) \in 7800..9200

\* C3 amended: a call that supplies no context renders the oee topic from
\* the context stored before the call: it shows the stored 'oee' value when
\* the stored context has that key and samples from [78, 92] only when it
\* has not.
C3_NoContextMeansStored ==
    [][(AnsweredWith("oee")' /\ NoContextSupplied') =>
          IF "oee" \in DOMAIN context
          THEN Near(Shown(result'.response.fields.oee), context.oee.num)
          ELSE Shown(result'.response.fields.oee) \in 7800..9200]_vars

C3_Witness ==
    /\ AnsweredWith("oee")
    /\ NoContextSupplied
    /\ Len(asked) = 2
    /\ "oee" \in DOMAIN context
    /\ result.response.fields.oee = <<"9", "9", ".", "9">>

\* ---------------------------------------------------------------- C4
NumericPlaceholders(topic) ==
    {p \in DOMAIN TopicInfo(topic).placeholders : TopicInfo(topic).placeholders[p] # ""}

\* C4: every numeric placeholder whose key is in the context passed to the
\* call shows the context's value.
C4_ContextFixesEveryPlaceholder ==
    (Answered /\ Truthy(call.dashboard_data) /\ result.response.template \in Topics) =>
        \A p \in NumericPlaceholders(result.response.template) :
            (p \in DOMAIN call.dashboard_data.data
             /\ call.dashboard_data.data[p].type # "str") =>
                Near(Shown(result.response.fields[p]), call.dashboard_data.data[p].num)

\* ---------------------------------------------------------------- C5
\* C5: on the oee topic a numeric 'oee' of the supplied context is shown to
\* one decimal (99.9 as "99.9"), and without the key in the context in use
\* the value shown lies in [78, 92].
C5_OeeContextOverride ==
    AnsweredWith("oee") =>
        LET text == result.response.fields.oee
            data == call.dashboard_data.data
        IN  /\ (Truthy(call.dashboard_data) /\ "oee" \in DOMAIN data) =>
                  /\ Near(Shown(text), data.oee.num)
                  /\ Len(text) >= 3 /\ text[Len(text) - 1] = "."
                  /\ data.oee.num = 9990 => text = <<"9", "9", ".", "9">>
            /\ "oee" \notin DOMAIN context => Shown(text) \in 7800..9200

C5_Witness ==
    /\ AnsweredWith("oee")
    /\ call.user_query = <<"w","h","a","t"," ","i","s"," ","t","h","e"," ","o","e","e">>
    /\ call.dashboard_data = Given([oee |-> PyFloat(9990)])
    /\ result.response.fields.oee = <<"9", "9", ".", "9">>

\* ---------------------------------------------------------------- C6
NoKeyword(q) == \A topic \in Topics : ~HasKeyword(topic, q)

\* C6: a query without any keyword is answered, without raising, by one of
\* the three fallback templates, whose {query} placeholder holds the first
\* 50 characters of the query as passed.
C6_FallbackCoverage ==
    (result.op = "get_response" /\ NoKeyword(Normalized(call.user_query))) =>
        /\ result.status = "returned"
        /\ result.response.template \in {"default_1", "default_2", "default_3"}
        /\ "query" \in DOMAIN result.response.fields =>
              LET shown == result.response.fields.query
              IN  /\ Len(shown) <= 50
                  /\ Len(shown) = 50 \/ Len(shown) = Len(call.user_query)
                  /\ \A i \in 1..Len(shown) : shown[i] = call.user_query[i]

C6_Witness ==
    /\ Answered
    /\ NoKeyword(Normalized(call.user_query))
    /\ Len(call.user_query) > 50
    /\ "query" \in DOMAIN result.response.fields
    /\ Len(result.response.fields.query) = 50

\* ---------------------------------------------------------------- C7
\* C7: two calls whose queries are equal once lower-cased and trimmed match
\* the same topic, whatever the context and the log at either call.
C7_ClassificationOfNormalizedQuery ==
    \A i, j \in 1..Len(asked) :
        Normalized(asked[i].user_query) = Normalized(asked[j].user_query) =>
            asked[i].matched_topic = asked[j].matched_topic

C7_Witness ==
    /\ Len(asked) = 2
    /\ asked[1].user_query # asked[2].user_query
    /\ Normalized(asked[1].user_query) = Normalized(asked[2].user_query)
    /\ asked[1].returned # asked[2].returned

\* ---------------------------------------------------------------- C8
OeeAnyCase(q) ==
    \E i \in 1..(Len(q) - 2) :
        q[i] \in {"o", "O"} /\ q[i + 1] \in {"e", "E"} /\ q[i + 2] \in {"e", "E"}

\* C8: a query with "oee" in any letter case matches the OEE topic, whatever
\* other keywords it holds.
C8_OeeAlwaysMatches ==
    (result.op = "get_response" /\ OeeAnyCase(call.user_query)) =>
        /\ result.matched_topic = "oee"
        /\ Answered => result.response.template = "oee"

C8_Witness ==
    /\ AnsweredWith("oee")
    /\ OeeAnyCase(call.user_query)
    /\ ~Contains(<<"o", "e", "e">>, call.user_query)
    /\ HasKeyword("quality", Normalized(call.user_query))

\* ---------------------------------------------------------------- C9
\* C9: clear_history leaves an empty log and the context as it was; after a
\* clear, a second clear leaves the same empty log.
C9_ClearEmptiesAndIsIdempotent ==
    [][result'.op = "clear_history" =>
          /\ conversation_history' = <<>>
          /\ context' = context
          /\ result.op = "clear_history" => conversation_history' = conversation_history]_vars

C9_Witness ==
    /\ result.op = "clear_history"
    /\ result.prior = 2
    /\ conversation_history = <<>>
    /\ context # EmptyContext

\* --------------------------------------------------------------- C10
\* C10: a get_response call that raises leaves the log and the stored
\* context as they were before the call.
C10_FailedCallChangesNothing ==
    [][(result'.op = "get_response" /\ result'.status = "raised") =>
          /\ conversation_history' = conversation_history
          /\ context' = context]_vars

\* --------------------------------------------------------------- C11
IsPrefix(s, t) == Len(s) <= Len(t) /\ SubSeq(t, 1, Len(s)) = s

\* C11: the log is append-only: every operation other than clear_history
\* leaves the turns already logged unchanged and in place, only get_response
\* adds a turn, exactly one and at the end, and only clear_history shrinks
\* the log.
C11_LogIsAppendOnly ==
    [][/\ result'.op # "clear_history" =>
             /\ IsPrefix(conversation_history, conversation_history')
             /\ Len(conversation_history') <= Len(conversation_history) + 1
       /\ conversation_history' # conversation_history =>
             result'.op \in {"get_response", "clear_history"}
       /\ Len(conversation_history') < Len(conversation_history) =>
             result'.op = "clear_history"]_vars

C11_Witness ==
    /\ result.op = "get_response"
    /\ result.prior = 1
    /\ Len(conversation_history) = 2
    /\ conversation_history[1] # conversation_history[2]

NumericContext(ctx) == \A k \in DOMAIN ctx : ctx[k].type \in {"float", "int"}

C14_EveryPlaceholderSupplied ==
    result.op = "_generate_response" =>
        LET placeholders == TopicInfo(result.matched_topic).placeholders
        IN  /\ \A r \in Rng :
                  DOMAIN placeholders \subseteq
                      DOMAIN format_kwargs(result.matched_topic, context, r)
            /\ result.status = "returned" =>
                  DOMAIN result.response.fields = DOMAIN placeholders
            /\ result.status = "raised" =>
                  /\ result.matched_topic = "oee"
                  /\ ~NumericContext(context)

\* the summary, the template with the most placeholders, rendered
C14_Witness ==
    /\ result.op = "_generate_response"
    /\ result.status = "returned"
    /\ result.matched_topic = "summary"
    /\ Cardinality(DOMAIN result.response.fields) = 11

\* --------------------------------------------------------------- C15
\* C15: rendering the oee topic under a context whose 'oee' is not a number
\* (a string, a boolean, None) raises instead of returning a response.
C15_NonNumericOeeRaises ==
    (/\ result.op = "_generate_response"
     /\ result.matched_topic = "oee"
     /\ "oee" \in DOMAIN context
     /\ context.oee.type \notin {"float", "int"}) =>
        result.status = "raised"

\* --------------------------------------------------------------- C16
HelpText == [template |-> "help", fields |-> <<>>]

\* C16: a query classified to help is answered with the static help text,
\* under every stored and every supplied context, and that text is what
\* the log records.
C16_HelpIgnoresContext ==
    (result.op = "get_response" /\ result.matched_topic = "help") =>
        /\ result.status = "returned"
        /\ result.response = HelpText
        /\ conversation_history[Len(conversation_history)].assistant = HelpText

C16_Witness ==
    /\ AnsweredWith("help")
    /\ Truthy(call.dashboard_data)
    /\ context = [defect_rate |-> PyFloat(90), oee |-> PyFloat(8525)]
    /\ result.response = HelpText

\* --------------------------------------------------------------- C17
\* the second of the day a timestamp HH:MM:SS names
SecondOfDay(timestamp) ==
    3600 * ReadDigits(SubSeq(timestamp, 1, 2))
        + 60 * ReadDigits(SubSeq(timestamp, 4, 5))
        + ReadDigits(SubSeq(timestamp, 7, 8))

C18_HistoryReadChangesNothing ==
    [][result'.op = "get_conversation_history" =>
          /\ result'.value = conversation_history
          /\ conversation_history' = conversation_history
          /\ context' = context
          /\ asked' = asked
          /\ result.op = "get_conversation_history" => result'.value = result.value]_vars

C18_Witness ==
    /\ result.op = "get_conversation_history"
    /\ Len(result.value) = 2
    /\ result.value = conversation_history
    /\ result.value[1].user # result.value[2].user

\* --------------------------------------------------------------- C20
\* C20: the turn a returning get_response call appends holds the query
\* exactly as passed, neither normalized nor cut, and the response the
\* call returns, on the matched and on the fallback path.
C20_TurnRecordsQueryAndResponse ==
    Answered =>
        /\ Len(conversation_history) = result.prior + 1
        /\ conversation_history[Len(conversation_history)].user = call.user_query
        /\ conversation_history[Len(conversation_history)].assistant = result.response

\* a fallback answer to a query of more than QueryPrefixLen characters with
\* capitals: the answer shows the cut query, the turn holds the whole one
C20_Witness ==
    /\ Answered
    /\ result.matched_topic = None
    /\ Len(call.user_query) > QueryPrefixLen
    /\ lower(call.user_query) # call.user_query
    /\ "query" \in DOMAIN result.response.fields
    /\ result.response.fields.query = Prefix(call.user_query, QueryPrefixLen)
    /\ conversation_history[1].user = call.user_query
    /\ conversation_history[1].assistant = result.response

\* --------------------------------------------------------------- C19
\* the topics an example of the help text is to be answered by
ExampleTopics(e) ==
    CASE e.heading = "Analytics"   -> {<<"oee", "energy", "production", "quality">>[e.item]}
      [] e.heading = "Maintenance" -> {"maintenance"}
      [] e.heading = "Alerts"      -> {"alert", "anomaly"}
      [] e.heading = "Insights"    -> {"optimize", "summary"}

\* C19: every example question of the help text is answered by a topic of
\* its heading and never by the fallback.
C19_HelpExamplesAnswered ==
    result.op = "get_response" =>
        \A e \in HelpExamples :
            e.question = call.user_query =>
                /\ result.status = "returned"
                /\ result.matched_topic \in ExampleTopics(e)
                /\ result.response.template \in ExampleTopics(e)

\* --------------------------------------------------------------- C21
\* C21: whatever the interleaving of the calls, an oee response is rendered
\* from the context passed to the call it answers.
C21_RenderedFromOwnContext ==
    \A t \in DOMAIN threads :
        (/\ threads[t].out.status = "returned"
         /\ threads[t].matched_topic = "oee"
         /\ Truthy(threads[t].dashboard_data)
         /\ "oee" \in DOMAIN threads[t].dashboard_data.data) =>
            threads[t].out.response.fields.oee =
                FormatValue(".1f", threads[t].dashboard_data.data.oee).text

\* --------------------------------------------------------------- C22
\* the inclusive range of every sampled numeric field, in hundredths
SampledRange ==
    [oee         |-> [oee |-> <<7800, 9200>>, availability |-> <<8800, 9600>>,
                      performance |-> <<8500, 9500>>, quality |-> <<9500, 9950>>],
     maintenance |-> [savings |-> <<1500000, 4500000>>],
     energy      |-> [today_kwh |-> <<1500000, 1800000>>, peak_kw |-> <<80000, 120000>>,
                      cost |-> <<180000, 250000>>, carbon |-> <<800000, 1200000>>],
     quality     |-> [fpy |-> <<9500, 9900>>, defect_rate |-> <<50, 150>>,
                      rework_rate |-> <<80, 200>>],
     production  |-> [units |-> <<450000, 550000>>, target_pct |-> <<9200, 10500>>,
                      cycle_time |-> <<1200, 1600>>, throughput |-> <<20000, 25000>>],
     alert       |-> <<>>,
     anomaly     |-> [count |-> <<300, 1200>>, rate |-> <<50, 250>>,
                      confidence |-> <<9200, 9800>>],
     help        |-> <<>>,
     summary     |-> [units |-> <<450000, 550000>>, target_pct |-> <<9200, 10500>>,
                      oee |-> <<7800, 9200>>, energy |-> <<1500000, 1800000>>,
                      cost |-> <<180000, 250000>>, fpy |-> <<9500, 9900>>,
                      defect_rate |-> <<50, 150>>, alert_count |-> <<200, 600>>],
     optimize    |-> [oee_improvement |-> <<300, 800>>, energy_savings |-> <<1000, 2000>>,
                      quality_improvement |-> <<50, 200>>]]

\* C22: every sampled numeric field of a rendered response shows a number
\* within its range, both ends included; the oee field of the oee topic is
\* sampled when the context has no 'oee'.
C22_SampledFieldsWithinRange ==
    (result.op = "_generate_response" /\ result.status = "returned") =>
        LET topic == result.matched_topic
        IN  \A field \in DOMAIN SampledRange[topic] :
                (topic = "oee" /\ field = "oee" /\ "oee" \in DOMAIN context)
                \/ /\ SampledRange[topic][field][1] <= Shown(result.response.fields[field])
                   /\ Shown(result.response.fields[field]) <= SampledRange[topic][field][2]

\* the oee topic without context showing both ends of two ranges
C22_Witness ==
    /\ result.op = "_generate_response"
    /\ result.status = "returned"
    /\ result.matched_topic = "oee"
    /\ context = EmptyContext
    /\ Shown(result.response.fields.oee) = 9200
    /\ Shown(result.response.fields.availability) = 8800

\* --------------------------------------------------------------- C23
\* C23: a get_response call that raises leaves the log as it was.
C23_FailedCallLogsNothing ==
    [][(result'.op = "get_response" /\ result'.status = "raised") =>
          conversation_history' = conversation_history]_vars

\* a call raised after a turn was logged, and the log holds that turn only
C23_Witness ==
    /\ result.op = "get_response"
    /\ result.status = "raised"
    /\ result.prior = 1
    /\ Len(asked) = 2
    /\ asked[1].returned
    /\ Len(conversation_history) = 1
    /\ conversation_history[1].user = asked[1].user_query

\* --------------------------------------------------------------- C24
\* C24: get_response with an empty mapping, like get_response without
\* dashboard data, leaves the stored context as it is; with a mapping that
\* is not empty the stored context becomes that mapping, none of the keys
\* stored before surviving.
C24_EmptyMappingKeepsContext ==
    [][result'.op = "get_response" =>
          context' = IF call'.dashboard_data.given
                        /\ call'.dashboard_data.data # EmptyContext
                     THEN call'.dashboard_data.data
                     ELSE context]_vars

\* an empty mapping was passed and the context stored before is in use
C24_Witness ==
    /\ Answered
    /\ call.dashboard_data = Given(EmptyContext)
    /\ context = [oee |-> PyFloat(9990)]
    /\ result.matched_topic = "oee"
    /\ result.response.fields.oee = <<"9","9",".","9">>

\* --------------------------------------------------------------- C25
\* C25: the message list of the host app and the log of the chatbot stay
\* in step: two messages per turn, the user's and then the assistant's,
\* the k-th pair holding the query and the response of the k-th turn; after
\* Clear Chat both are empty.
C25_MessagesInStepWithLog ==
    /\ Len(session.chat_messages) = 2 * Len(conversation_history)
    /\ \A k \in 1..Len(conversation_history) :
          /\ 2 * k <= Len(session.chat_messages)
          /\ session.chat_messages[2 * k - 1].role = "user"
          /\ session.chat_messages[2 * k - 1].content = conversation_history[k].user
          /\ session.chat_messages[2 * k].role = "assistant"
          /\ session.chat_messages[2 * k].content = conversation_history[k].assistant
    /\ result.op = "clear_history" =>
          session.chat_messages = <<>> /\ conversation_history = <<>>

\* a quick action and then a typed question, after an earlier Clear Chat
C25_Witness ==
    /\ Len(session.chat_messages) = 4
    /\ Len(conversation_history) = 2
    /\ session.chat_messages[1].content = quick_prompts[1]
    /\ session.chat_messages[2].content.template = "summary"
    /\ session.chat_messages[3].content \in ChatInputs
    /\ session.chat_messages[4].content.template = "oee"

\* --------------------------------------------------------------- C26
\* C26: Sign Out sets authenticated, username and user_info back and
\* nothing else; the chatbot, its log and the message list stay, also
\* through the next sign-in, whoever signs in.
C26_SignOutKeepsConversation ==
    [][/\ result'.op = "sign_out" =>
             /\ session' = [session EXCEPT !.authenticated = FALSE,
                                           !.username = None,
                                           !.user_info = NoUserInfo]
             /\ conversation_history' = conversation_history
             /\ context' = context
       /\ (result'.op = "sign_in" /\ session.chatbot) =>
             /\ session'.chat_messages = session.chat_messages
             /\ session'.chatbot
             /\ conversation_history' = conversation_history
             /\ context' = context]_vars

\* demo has signed in and finds the conversation of admin
C26_Witness ==
    /\ result.op = "sign_in"
    /\ session.authenticated
    /\ session.username = "demo"
    /\ session.authors = {"admin"}
    /\ Len(session.chat_messages) = 2
    /\ Len(conversation_history) = 1

\* --------------------------------------------------------------- C27
\* C27: an authenticated session holds a username of USERS and that user's
\* record; a session becomes authenticated only by a sign-in whose name
\* and password are those of one entry of USERS; a rejected or incomplete
\* sign-in changes nothing of the session; the chatbot is created and
\* called, and the chat cleared, in authenticated sessions only.
C27_AuthenticatedMeansKnownUser ==
    [][/\ session'.authenticated =>
             /\ session'.username \in DOMAIN USERS
             /\ session'.user_info = USERS[session'.username]
             /\ session'.chatbot
       /\ (~session.authenticated /\ session'.authenticated) =>
             /\ result'.op = "sign_in"
             /\ result'.value[1] \in DOMAIN USERS
             /\ USERS[result'.value[1]].password = result'.value[2]
             /\ session'.username = result'.value[1]
       /\ (result'.op = "sign_in" /\ result'.status # "accepted") =>
             session' = session
       /\ result'.op \in {"get_response", "clear_history", "sign_out"} =>
             session.authenticated
       /\ (~session.chatbot /\ session'.chatbot) => session'.authenticated]_vars

\* after a sign-out, a known user with another user's password is rejected
C27_Witness ==
    /\ result.op = "sign_in"
    /\ result.status = "rejected"
    /\ result.value = <<"admin", "demo">>
    /\ ~session.authenticated
    /\ session.chatbot

\* --------------------------------------------------------------- C28
\* C28: a saved dashboard is an isolated snapshot: no builder action changes
\* the widgets stored in a saved dashboard; a step either leaves them as
\* they were or deletes the dashboard.
C28_SavedDashboardIsSnapshot ==
    [][\A d \in builder.dashboards :
          \/ \A e \in builder'.dashboards : e.name # d.name
          \/ \E e \in builder'.dashboards :
                /\ e.name = d.name
                /\ Widgets(builder'.objects, e.widgets)
                      = Widgets(builder.objects, d.widgets)]_vars

\* --------------------------------------------------------------- C29
BuilderSizes == {"small", "medium", "large", "full"}

\* the widgets rendered so far are the first ones of the list, each once,
\* in the order of the list
ShownInListOrder ==
    /\ Len(preview.shown) = preview.i
    /\ \A k \in 1..Len(preview.shown) : preview.shown[k].index = k - 1
    /\ preview.done => preview.i = Len(preview.widgets)

\* every size value that is none of the four replaced by 'small'
AsSmall(widgets) ==
    [k \in 1..Len(widgets) |->
        IF widgets[k] \in BuilderSizes \cup {None} THEN widgets[k] ELSE "small"]

UnknownStartsItsRow ==
    \A k \in 1..Len(preview.shown) :
        LET size == preview.widgets[preview.shown[k].index + 1]
        IN  size \notin BuilderSizes =>
                /\ preview.shown[k].column = 1
                /\ preview.shown[k].columns = IF size = None THEN 2 ELSE 3

C30_ClearLeavesReturnedHistory ==
    [][result'.op = "clear_history" =>
          /\ held'.turns = held.turns
          /\ held.alias => held'.turns = conversation_history
          /\ conversation_history' = <<>>
          /\ ~held'.alias]_vars

\* a caller took the history after two turns; then the log was cleared
C30_Witness ==
    /\ result.op = "clear_history"
    /\ Len(held.turns) = 2
    /\ held.turns[1].user # held.turns[2].user
    /\ conversation_history = <<>>

====
